---- MODULE Spec2Model ----
(***************************************************************************)
(* Model of package es (src/es.go): an Elasticsearch query DSL that builds *)
(* a JSON document by string formatting.                                   *)
(*                                                                         *)
(* A Go string is a sequence of one-character strings, so that fmt.Sprintf,*)
(* strings.Join, json.Unmarshal and json.Marshal are computed character by *)
(* character.  The format literals below are the raw string literals of    *)
(* the source, whitespace included.                                        *)
(***************************************************************************)
EXTENDS Integers, Sequences, FiniteSets, TLC

VARIABLES stack, closure, last, aborted, left, caller

vars == <<stack, closure, last, aborted, left, caller>>

(***************************************************************************)
(* Bounds of the model.                                                    *)
(***************************************************************************)
\* arguments of one variadic call, and fragments a caller holds at once
MaxChildren == 2
\* calls of a run that builds a query
MaxCalls == 8
\* calls of a run that builds a tree of aggregations
MaxAggCalls == 6
\* calls of a run that tries optional and hand-written fragments
MaxFragmentCalls == 4

(***************************************************************************)
(* Characters.                                                             *)
(***************************************************************************)
\* the printable ASCII characters in byte order, 0x20 .. 0x7e (0x60, which a TLA+
\* string cannot hold, by name: no text of the model has it)
Printable ==
  <<" ", "!", "\"", "#", "$", "%", "&", "'", "(", ")", "*", "+", ",", "-", ".", "/",
    "0", "1", "2", "3", "4", "5", "6", "7", "8", "9", ":", ";", "<", "=", ">", "?",
    "@", "A", "B", "C", "D", "E", "F", "G", "H", "I", "J", "K", "L", "M", "N", "O",
    "P", "Q", "R", "S", "T", "U", "V", "W", "X", "Y", "Z", "[", "\\", "]", "^", "_",
    "GRAVE", "a", "b", "c", "d", "e", "f", "g", "h", "i", "j", "k", "l", "m", "n", "o",
    "p", "q", "r", "s", "t", "u", "v", "w", "x", "y", "z", "{", "|", "}", "~">>

\* the byte value of a character
Code(c) ==
  CASE c = "\t" -> 9
    [] c = "\n" -> 10
    [] c = "\r" -> 13
    [] OTHER -> 31 + (CHOOSE i \in 1..Len(Printable) : Printable[i] = c)

Digits == <<"0", "1", "2", "3", "4", "5", "6", "7", "8", "9">>

IsDigit(c) == \E i \in 1..10 : Digits[i] = c

DigitVal(c) == (CHOOSE i \in 1..10 : Digits[i] = c) - 1

\* the characters encoding/json skips between tokens
IsSpace(c) == c \in {" ", "\t", "\r", "\n"}

\* s < t in Go's string (byte-wise lexicographic) order
RECURSIVE StrLess(_, _)
StrLess(s, t) ==
  IF t = <<>> THEN FALSE
  ELSE IF s = <<>> THEN TRUE
  ELSE IF Head(s) = Head(t) THEN StrLess(Tail(s), Tail(t))
  ELSE Code(Head(s)) < Code(Head(t))

(***************************************************************************)
(* package fmt: the verbs the source uses.                                 *)
(***************************************************************************)
\* strconv.Quote, which %q applies to a string: a double-quoted Go literal
RECURSIVE QuoteBody(_)
QuoteBody(s) ==
  IF s = <<>> THEN <<>>
  ELSE (CASE Head(s) = "\"" -> <<"\\", "\"">>
          [] Head(s) = "\\" -> <<"\\", "\\">>
          [] Head(s) = "\n" -> <<"\\", "n">>
          [] Head(s) = "\t" -> <<"\\", "t">>
          [] Head(s) = "\r" -> <<"\\", "r">>
          [] OTHER -> <<Head(s)>>) \o QuoteBody(Tail(s))

Quote(s) == <<"\"">> \o QuoteBody(s) \o <<"\"">>

\* the decimal digits of a natural number
RECURSIVE FormatNat(_)
FormatNat(n) ==
  IF n < 10 THEN <<Digits[n + 1]>> ELSE FormatNat(n \div 10) \o <<Digits[(n % 10) + 1]>>

\* %d of an int
FormatInt(n) == IF n < 0 THEN <<"-">> \o FormatNat(0 - n) ELSE FormatNat(n)

\* one verb applied to one operand
Verb(v, arg) ==
  CASE v = "s" -> arg
    [] v = "q" -> Quote(arg)
    [] v = "d" -> FormatInt(arg)

\* the first index from i on where f holds a verb, Len(f) + 1 when it holds none
NextVerb(f, i) ==
  CHOOSE j \in i..(Len(f) + 1) :
    /\ j = Len(f) + 1 \/ f[j] = "%"
    /\ \A n \in i..(j - 1) : f[n] # "%"

\* fmt.Sprintf(f, args...): f is copied, each %verb replaced by the next operand
RECURSIVE SprintfFrom(_, _, _, _)
SprintfFrom(f, i, args, k) ==
  LET j == NextVerb(f, i)
  IN  IF j > Len(f) THEN SubSeq(f, i, Len(f))
      ELSE SubSeq(f, i, j - 1) \o Verb(f[j + 1], args[k]) \o SprintfFrom(f, j + 2, args, k + 1)

Sprintf(f, args) == SprintfFrom(f, 1, args, 1)

(***************************************************************************)
(* join and clean (src/es.go:281-294).                                     *)
(***************************************************************************)
\* the separator join passes to strings.Join
Sep == <<",", "\n">>

\* clean without its test: every string is kept
clean_KeepsEmpty(s) == s

\* clean: the loop appends v to vals when v != ""
RECURSIVE clean(_)
clean(s) ==
  IF s = <<>> THEN <<>>
  ELSE IF Head(s) # <<>> THEN <<Head(s)>> \o clean(Tail(s))
  ELSE clean(Tail(s))

\* strings.Join(elems, sep)
RECURSIVE StringsJoin(_, _)
StringsJoin(elems, sep) ==
  IF elems = <<>> THEN <<>>
  ELSE IF Len(elems) = 1 THEN elems[1]
  ELSE elems[1] \o sep \o StringsJoin(Tail(elems), sep)

join(s) == StringsJoin(clean(s), Sep)

(***************************************************************************)
(* The format literals of the source.                                      *)
(***************************************************************************)
QueryFmt ==
  <<"{", "\n", " ", " ", " ", " ", "\"", "s", "i", "z", "e", "\"", ":", " ", "0", ",",
    "\n", " ", " ", " ", " ", "%", "s", "\n", " ", " ", "}">>

FilterFmt ==
  <<"\n", "\t", "\t", "\t", "\"", "f", "i", "l", "t", "e", "r", "\"", ":", " ", "{",
    "\n", "\t", "\t", "\t", "\t", "\"", "b", "o", "o", "l", "\"", ":", " ", "{", "\n",
    "\t", "\t", "\t", "\t", "\t", "\"", "f", "i", "l", "t", "e", "r", "\"", ":", " ",
    "[", "\n", "\t", "\t", "\t", "\t", "\t", "\t", "%", "s", "\n", "\t", "\t", "\t",
    "\t", "\t", "]", "\n", "\t", "\t", "\t", "\t", "}", "\n", "\t", "\t", "\t", "}",
    ",", "\n", "\t", "\t", "\t", "%", "s", "\n", "\t", "\t">>

RangeFmt ==
  <<"{", "\n", "\t", "\t", "\"", "r", "a", "n", "g", "e", "\"", ":", " ", "{", "\n",
    "\t", "\t", "\t", "\"", "t", "i", "m", "e", "s", "t", "a", "m", "p", "\"", ":",
    " ", "{", "\n", "\t", "\t", "\t", "\t", "\"", "g", "t", "e", "\"", ":", " ", "%",
    "q", ",", "\n", "\t", "\t", "\t", "\t", "\"", "l", "t", "e", "\"", ":", " ", "%",
    "q", "\n", "\t", "\t", "\t", "}", "\n", "\t", "\t", "}", "\n", "\t", "}">>

TermFmt ==
  <<"{", "\n", "\t", "\t", "\"", "t", "e", "r", "m", "\"", ":", " ", "{", "\n", "\t",
    "\t", "\t", "%", "q", ":", " ", "%", "q", "\n", "\t", "\t", "}", "\n", "\t", "}">>

AggsFmt ==
  <<"\n", " ", " ", "\"", "a", "g", "g", "s", "\"", ":", " ", "{", "\n", " ", " ", " ",
    " ", "%", "s", "\n", " ", " ", "}">>

AggFmt ==
  <<"\n", " ", " ", "%", "q", ":", " ", "{", "\n", " ", " ", " ", " ", "%", "s", "\n",
    " ", " ", "}">>

SumFmt ==
  <<"\n", " ", " ", " ", " ", "\"", "s", "u", "m", "\"", ":", " ", "{", "\n", " ", " ",
    " ", " ", " ", " ", "\"", "f", "i", "e", "l", "d", "\"", ":", " ", "%", "q", "\n",
    " ", " ", " ", " ", "}", "\n", " ", " ">>

DateHistogramFmt ==
  <<"\n", "\t", "\t", "\"", "d", "a", "t", "e", "_", "h", "i", "s", "t", "o", "g", "r",
    "a", "m", "\"", ":", " ", "{", "\n", "\t", "\t", "\t", "\"", "f", "i", "e", "l",
    "d", "\"", ":", " ", "%", "q", ",", "\n", "\t", "\t", "\t", "%", "s", "\n", "\t",
    "\t", "}", "\n", "\t">>

HistogramFmt ==
  <<"\n", " ", " ", " ", " ", "\"", "h", "i", "s", "t", "o", "g", "r", "a", "m", "\"",
    ":", " ", "{", "\n", " ", " ", " ", " ", " ", " ", "\"", "f", "i", "e", "l", "d",
    "\"", ":", " ", "%", "q", ",", "\n", " ", " ", " ", " ", " ", " ", "%", "s", "\n",
    " ", " ", " ", " ", "}", "\n", " ", " ">>

TimeZoneFmt ==
  <<"\"", "t", "i", "m", "e", "_", "z", "o", "n", "e", "\"", ":", " ", "%", "q">>

IntervalStringFmt ==
  <<"\"", "i", "n", "t", "e", "r", "v", "a", "l", "\"", ":", " ", "%", "q">>

IntervalIntFmt ==
  <<"\"", "i", "n", "t", "e", "r", "v", "a", "l", "\"", ":", " ", "%", "d">>

(***************************************************************************)
(* package encoding/json, as compress and Pretty use it: json.Unmarshal    *)
(* into an interface{} and json.Marshal / json.MarshalIndent of the result.*)
(*                                                                         *)
(* A decoded value is [k |-> kind, v |-> payload]: a map[string]interface{}*)
(* is the sequence of its members in key order (a Go map has no order and  *)
(* Marshal writes the keys sorted), a []interface{} the sequence of its    *)
(* elements, a float64 its sign and magnitude.  Numbers with a fraction or *)
(* an exponent, and the escapes \b, \f and \u of code points outside       *)
(* Printable, are not modelled: the CASE expressions below have no branch  *)
(* for them, so TLC stops if a text of the model ever holds one.           *)
(***************************************************************************)
JNull == [k |-> "null", v |-> <<>>]
JBool(b) == [k |-> "bool", v |-> b]
JNum(neg, mag) == [k |-> "num", v |-> [neg |-> neg, mag |-> mag]]
JStr(s) == [k |-> "str", v |-> s]
JArr(elems) == [k |-> "arr", v |-> elems]
JObj(members) == [k |-> "obj", v |-> members]

\* a map that keeps the value a key was given first
RECURSIVE MapPut_KeepsFirst(_, _, _)
MapPut_KeepsFirst(m, key, val) ==
  IF m = <<>> THEN <<[key |-> key, val |-> val]>>
  ELSE IF m[1].key = key THEN m
  ELSE IF StrLess(key, m[1].key) THEN <<[key |-> key, val |-> val]>> \o m
  ELSE <<m[1]>> \o MapPut_KeepsFirst(Tail(m), key, val)

\* m[key] = val on a map kept in key order: a key already present is overwritten
RECURSIVE MapPut(_, _, _)
MapPut(m, key, val) ==
  IF m = <<>> THEN <<[key |-> key, val |-> val]>>
  ELSE IF m[1].key = key THEN <<[key |-> key, val |-> val]>> \o Tail(m)
  ELSE IF StrLess(key, m[1].key) THEN <<[key |-> key, val |-> val]>> \o m
  ELSE <<m[1]>> \o MapPut(Tail(m), key, val)

HasKey(m, key) == \E i \in 1..Len(m) : m[i].key = key

MapGet(m, key) == m[CHOOSE i \in 1..Len(m) : m[i].key = key].val

\* the character at i, or a mark past the end of the text
At(t, i) == IF i >= 1 /\ i <= Len(t) THEN t[i] ELSE "EOF"

Fail == [ok |-> FALSE, val |-> JNull, pos |-> 0]

Ok(val, pos) == [ok |-> TRUE, val |-> val, pos |-> pos]

\* the first index from i on that holds no white space, Len(t) + 1 when all is white
SkipSpace(t, i) ==
  CHOOSE j \in i..(Len(t) + 1) :
    /\ ~IsSpace(At(t, j))
    /\ \A n \in i..(j - 1) : IsSpace(t[n])

HexDigits ==
  <<"0", "1", "2", "3", "4", "5", "6", "7", "8", "9", "a", "b", "c", "d", "e", "f">>

UpperHex == <<"A", "B", "C", "D", "E", "F">>

IsHex(c) == (\E i \in 1..16 : HexDigits[i] = c) \/ (\E i \in 1..6 : UpperHex[i] = c)

HexVal(c) ==
  IF \E i \in 1..16 : HexDigits[i] = c
  THEN (CHOOSE i \in 1..16 : HexDigits[i] = c) - 1
  ELSE (CHOOSE i \in 1..6 : UpperHex[i] = c) + 9

\* the character of a \uXXXX escape
Rune(a, b, c, d) ==
  LET n == 4096 * HexVal(a) + 256 * HexVal(b) + 16 * HexVal(c) + HexVal(d)
  IN  CASE n = 9 -> "\t"
        [] n = 10 -> "\n"
        [] n = 13 -> "\r"
        [] n >= 32 /\ n <= 126 -> Printable[n - 31]

\* the text from j on inside a string literal; acc is what was decoded so far
RECURSIVE StringFrom(_, _, _)
StringFrom(t, j, acc) ==
  LET c == At(t, j)
  IN  IF c = "EOF" \/ c \in {"\n", "\t", "\r"} THEN Fail
      ELSE IF c = "\"" THEN Ok(JStr(acc), j + 1)
      ELSE IF c = "\\"
        THEN LET e == At(t, j + 1)
             IN  CASE e \in {"\"", "\\", "/"} -> StringFrom(t, j + 2, Append(acc, e))
                   [] e = "n" -> StringFrom(t, j + 2, Append(acc, "\n"))
                   [] e = "r" -> StringFrom(t, j + 2, Append(acc, "\r"))
                   [] e = "t" -> StringFrom(t, j + 2, Append(acc, "\t"))
                   [] e = "u" ->
                        IF \A d \in 2..5 : IsHex(At(t, j + d))
                        THEN StringFrom(t, j + 6,
                               Append(acc, Rune(t[j + 2], t[j + 3], t[j + 4], t[j + 5])))
                        ELSE Fail
                   [] e \notin {"\"", "\\", "/", "n", "r", "t", "u", "b", "f"} -> Fail
      ELSE StringFrom(t, j + 1, Append(acc, c))

RECURSIVE DigitsFrom(_, _, _)
DigitsFrom(t, j, n) ==
  IF IsDigit(At(t, j)) THEN DigitsFrom(t, j + 1, 10 * n + DigitVal(t[j])) ELSE [n |-> n, pos |-> j]

\* a number literal: an optional minus sign, then 0 or a digit 1-9 and more digits
NumberAt(t, i) ==
  LET neg == At(t, i) = "-"
      j == IF neg THEN i + 1 ELSE i
      d == IF At(t, j) = "0" THEN [n |-> 0, pos |-> j + 1] ELSE DigitsFrom(t, j, 0)
  IN  IF ~IsDigit(At(t, j)) THEN Fail
      ELSE CASE At(t, d.pos) \notin {".", "e", "E"} -> Ok(JNum(neg, d.n), d.pos)

\* the literal word w at i
WordAt(t, i, w, val) ==
  IF i + Len(w) - 1 <= Len(t) /\ SubSeq(t, i, i + Len(w) - 1) = w
  THEN Ok(val, i + Len(w))
  ELSE Fail

RECURSIVE ValueAt(_, _), MembersFrom(_, _, _), ElementsFrom(_, _, _)
\* one value, after any white space from i on
ValueAt(t, i) ==
  LET j == SkipSpace(t, i)
      c == At(t, j)
  IN  CASE c = "{" ->
             (LET n == SkipSpace(t, j + 1)
              IN  IF At(t, n) = "}" THEN Ok(JObj(<<>>), n + 1) ELSE MembersFrom(t, n, <<>>))
        [] c = "[" ->
             (LET n == SkipSpace(t, j + 1)
              IN  IF At(t, n) = "]" THEN Ok(JArr(<<>>), n + 1) ELSE ElementsFrom(t, n, <<>>))
        [] c = "\"" -> StringFrom(t, j + 1, <<>>)
        [] c = "-" \/ IsDigit(c) -> NumberAt(t, j)
        [] c = "t" -> WordAt(t, j, <<"t", "r", "u", "e">>, JBool(TRUE))
        [] c = "f" -> WordAt(t, j, <<"f", "a", "l", "s", "e">>, JBool(FALSE))
        [] c = "n" -> WordAt(t, j, <<"n", "u", "l", "l">>, JNull)
        [] OTHER -> Fail

\* the members of an object from the key at j on; m holds the members decoded so far
MembersFrom(t, j, m) ==
  IF At(t, j) # "\"" THEN Fail
  ELSE LET key == StringFrom(t, j + 1, <<>>)
       IN  IF ~key.ok THEN Fail
           ELSE LET c == SkipSpace(t, key.pos)
                IN  IF At(t, c) # ":" THEN Fail
                    ELSE LET val == ValueAt(t, c + 1)
                         IN  IF ~val.ok THEN Fail
                             ELSE LET e == SkipSpace(t, val.pos)
                                      put == MapPut(m, key.val.v, val.val)
                                  IN  CASE At(t, e) = "," ->
                                             MembersFrom(t, SkipSpace(t, e + 1), put)
                                        [] At(t, e) = "}" -> Ok(JObj(put), e + 1)
                                        [] OTHER -> Fail

\* the elements of an array from the value at j on
ElementsFrom(t, j, a) ==
  LET val == ValueAt(t, j)
  IN  IF ~val.ok THEN Fail
      ELSE LET e == SkipSpace(t, val.pos)
           IN  CASE At(t, e) = "," -> ElementsFrom(t, e + 1, Append(a, val.val))
                 [] At(t, e) = "]" -> Ok(JArr(Append(a, val.val)), e + 1)
                 [] OTHER -> Fail

\* json.Unmarshal([]byte(s), &v) with v an interface{}: err is non-nil unless s is
\* exactly one value with white space around it
Unmarshal(s) ==
  LET r == ValueAt(s, 1)
  IN  IF r.ok /\ SkipSpace(s, r.pos) = Len(s) + 1
      THEN [err |-> FALSE, v |-> r.val]
      ELSE [err |-> TRUE, v |-> JNull]

\* a string as Marshal writes it (with the HTML characters escaped)
RECURSIVE EncodeBody(_)
EncodeBody(s) ==
  IF s = <<>> THEN <<>>
  ELSE (CASE Head(s) = "\"" -> <<"\\", "\"">>
          [] Head(s) = "\\" -> <<"\\", "\\">>
          [] Head(s) = "\n" -> <<"\\", "n">>
          [] Head(s) = "\r" -> <<"\\", "r">>
          [] Head(s) = "\t" -> <<"\\", "t">>
          [] Head(s) = "<" -> <<"\\", "u", "0", "0", "3", "c">>
          [] Head(s) = ">" -> <<"\\", "u", "0", "0", "3", "e">>
          [] Head(s) = "&" -> <<"\\", "u", "0", "0", "2", "6">>
          [] OTHER -> <<Head(s)>>) \o EncodeBody(Tail(s))

\* a string written between quotes with nothing escaped
EncodeString_Unescaped(s) == <<"\"">> \o s \o <<"\"">>

EncodeString(s) == <<"\"">> \o EncodeBody(s) \o <<"\"">>

EncodeNumber(n) == (IF n.neg THEN <<"-">> ELSE <<>>) \o FormatNat(n.mag)

\* n copies of the indent "  "
RECURSIVE Indent(_)
Indent(n) == IF n = 0 THEN <<>> ELSE <<" ", " ">> \o Indent(n - 1)

\* what goes before an element at nesting depth d: nothing when compact
Break(pretty, d) == IF pretty THEN <<"\n">> \o Indent(d) ELSE <<>>

RECURSIVE Encode(_, _, _), EncodeMembers(_, _, _), EncodeElements(_, _, _)
Encode(val, pretty, d) ==
  CASE val.k = "null" -> <<"n", "u", "l", "l">>
    [] val.k = "bool" -> IF val.v THEN <<"t", "r", "u", "e">> ELSE <<"f", "a", "l", "s", "e">>
    [] val.k = "num" -> EncodeNumber(val.v)
    [] val.k = "str" -> EncodeString(val.v)
    [] val.k = "arr" ->
         IF val.v = <<>> THEN <<"[", "]">>
         ELSE <<"[">> \o EncodeElements(val.v, pretty, d + 1) \o Break(pretty, d) \o <<"]">>
    [] val.k = "obj" ->
         IF val.v = <<>> THEN <<"{", "}">>
         ELSE <<"{">> \o EncodeMembers(val.v, pretty, d + 1) \o Break(pretty, d) \o <<"}">>

EncodeMembers(m, pretty, d) ==
  Break(pretty, d) \o EncodeString(m[1].key) \o <<":">>
    \o (IF pretty THEN <<" ">> ELSE <<>>) \o Encode(m[1].val, pretty, d)
    \o (IF Len(m) = 1 THEN <<>> ELSE <<",">> \o EncodeMembers(Tail(m), pretty, d))

EncodeElements(a, pretty, d) ==
  Break(pretty, d) \o Encode(a[1], pretty, d)
    \o (IF Len(a) = 1 THEN <<>> ELSE <<",">> \o EncodeElements(Tail(a), pretty, d))

\* json.Marshal(v)
Marshal(v) == Encode(v, FALSE, 0)

\* json.MarshalIndent(v, "", "  ")
MarshalIndent(v) == Encode(v, TRUE, 0)
(***************************************************************************)
(* The functions of the package.  A function that can panic returns        *)
(* [panic |-> BOOLEAN, ret |-> its result when it returns].                *)
(***************************************************************************)
Return(s) == [panic |-> FALSE, ret |-> s]

Panic == [panic |-> TRUE, ret |-> <<>>]

\* compress with the error of Unmarshal dropped
compress_IgnoresError(s) ==
  LET u == Unmarshal(s)
  IN  Return(IF u.err THEN <<>> ELSE Marshal(u.v))

\* compress (src/es.go:12): Unmarshal, panic(err) on an error, else Marshal
compress(s) ==
  LET u == Unmarshal(s)
  IN  IF u.err THEN Panic ELSE Return(Marshal(u.v))

\* Pretty (src/es.go:37): as compress, with MarshalIndent
Pretty(s) ==
  LET u == Unmarshal(s)
  IN  IF u.err THEN Panic ELSE Return(MarshalIndent(u.v))

\* When without its test of cond
When_IgnoresCond(cond, children) == join(children)

\* When (src/es.go:28)
When(cond, children) == IF cond THEN join(children) ELSE <<>>

\* the text Query formats and hands to compress
QueryText(children) == Sprintf(QueryFmt, <<join(children)>>)

\* Query without the "size" member
Query_NoMarker(children) == compress(<<"{">> \o join(children) \o <<"}">>)

\* Query (src/es.go:53)
Query(children) == compress(QueryText(children))

\* the function value with its two operands exchanged
FilterFunc_Exchanged(filters, children) ==
  Sprintf(FilterFmt, <<join(children), join(filters)>>)

\* the function value Filter returns (src/es.go:62): its body, with the filters it captured
FilterFunc(filters, children) == Sprintf(FilterFmt, <<join(filters), join(children)>>)

Range(gte, lte) == Sprintf(RangeFmt, <<gte, lte>>)

Term(field, value) == Sprintf(TermFmt, <<field, value>>)

Aggs(children) == Sprintf(AggsFmt, <<join(children)>>)

Agg(name, children) == Sprintf(AggFmt, <<name, join(children)>>)

Sum(field) == Sprintf(SumFmt, <<field>>)

DateHistogram(field, options) == Sprintf(DateHistogramFmt, <<field, join(options)>>)

Histogram(field, options) == Sprintf(HistogramFmt, <<field, join(options)>>)

\* two decimal digits
TwoDigits(n) == <<Digits[(n \div 10) + 1], Digits[(n % 10) + 1]>>

\* offset (src/es.go:297): t.Format("-07:00"), of a time whose zone is mins east of UTC
offset(mins) ==
  LET a == IF mins < 0 THEN 0 - mins ELSE mins
  IN  <<IF mins < 0 THEN "-" ELSE "+">> \o TwoDigits(a \div 60) \o <<":">> \o TwoDigits(a % 60)

\* the time zone database of the host: the names time.LoadLocation resolves, each with
\* the offsets the zone has over the year
UTC == <<"U", "T", "C">>
LosAngeles ==
  <<"A", "m", "e", "r", "i", "c", "a", "/", "L", "o", "s", "_", "A", "n", "g", "e", "l",
    "e", "s">>
Kolkata == <<"A", "s", "i", "a", "/", "K", "o", "l", "k", "a", "t", "a">>

ZoneNames == {UTC, LosAngeles, Kolkata}

ZoneOffsets(name) ==
  CASE name = UTC -> {0}
    [] name = LosAngeles -> {0 - 480, 0 - 420}
    [] name = Kolkata -> {330}

\* the offsets time.Now() can have in the process's local zone
LocalOffsets == {330}

\* time.LoadLocation(name): err is nil exactly for the names of the database
LoadLocation(name) == [err |-> name \notin ZoneNames]

\* TimeZone with the local offset for a name the database does not resolve
TimeZone_UnknownAsLocal(s, local, inLoc) ==
  IF Len(s) = 0 THEN Sprintf(TimeZoneFmt, <<offset(local)>>)
  ELSE IF ~LoadLocation(s[1]).err THEN Sprintf(TimeZoneFmt, <<offset(inLoc)>>)
  ELSE Sprintf(TimeZoneFmt, <<offset(local)>>)

\* TimeZone (src/es.go:209).  s holds the variadic arguments; local and inLoc are the
\* offsets of time.Now() and of time.Now().In(loc) at the call.
TimeZone(s, local, inLoc) ==
  IF Len(s) = 0 THEN Sprintf(TimeZoneFmt, <<offset(local)>>)
  ELSE IF ~LoadLocation(s[1]).err THEN Sprintf(TimeZoneFmt, <<offset(inLoc)>>)
  ELSE Sprintf(TimeZoneFmt, <<s[1]>>)

\* Interval that formats a value of any numeric type
Interval_AnyNumber(v) ==
  CASE v.type = "string" -> Return(Sprintf(IntervalStringFmt, <<v.str>>))
    [] OTHER -> Return(Sprintf(IntervalIntFmt, <<v.num>>))

\* Interval (src/es.go:225).  v is an interface{}: its dynamic type and its value,
\* a string's in v.str and a number's in v.num.
Interval(v) ==
  CASE v.type = "string" -> Return(Sprintf(IntervalStringFmt, <<v.str>>))
    [] v.type = "int" -> Return(Sprintf(IntervalIntFmt, <<v.num>>))
    [] OTHER -> Panic
(***************************************************************************)
(* The caller.  The package keeps no state of its own: the state is what a *)
(* caller holds while it evaluates an expression of the DSL bottom-up.     *)
(*   stack    the fragments built and not yet passed to an enclosing call, *)
(*            each with the kind of position it is meant for               *)
(*   closure  the function value the caller got from Filter               *)
(*   last     the call made last: its operands and what it returned        *)
(*   aborted  a panic has ended the process                                *)
(*   left     the calls the caller has yet to make                         *)
(*   caller   the field names and aggregation names the caller uses        *)
(***************************************************************************)
\* the field names and aggregation names callers use
Fields == {<<"f">>, <<"g">>}

\* a term value with characters that %q and Marshal escape
TermValue == <<"<", "v", "\"">>

Total == <<"t", "o", "t", "a", "l">>

Names == {Total, <<"n">>}

NotAZone == <<"N", "o", "t", "/", "A", "Z", "o", "n", "e">>

\* the variadic arguments of a TimeZone call
ZoneArgs == {<<>>, <<LosAngeles>>, <<NotAZone>>, <<offset(0 - 480)>>}

\* the operands of an Interval call: an int, a string, a float64 and an int64
IntervalArgs ==
  {[type |-> "int", num |-> 5, str |-> <<>>], [type |-> "int", num |-> 0 - 30, str |-> <<>>],
   [type |-> "string", num |-> 0, str |-> <<"1", "d">>],
   [type |-> "float64", num |-> 2, str |-> <<>>], [type |-> "int64", num |-> 5, str |-> <<>>]}

\* fragments a caller writes by hand: the empty string, a member that sets "size", a
\* member whose value is cut short, and a whole document with a key twice
RawSize == <<"\"", "s", "i", "z", "e", "\"", ":", " ", "1">>
RawBroken == <<"\"", "k", "\"", ":", " ", "{">>
RawDocument ==
  <<"{", "\"", "b", "\"", ":", "1", ",", "\n", "\"", "a", "\"", ":", "[", "t", "r", "u",
    "e", ",", "n", "u", "l", "l", ",", "\"", "<", "\"", "]", ",", "\"", "b", "\"", ":",
    "-", "0", "}", " ">>

RawTexts == {<<>>, RawSize, RawBroken, RawDocument}

\* a fragment the caller holds: its text, the kind of position it is meant for, and the
\* function that returned it
Entry(kind, text, op) == [kind |-> kind, text |-> text, op |-> op]

\* the last k fragments of the stack, in the order they were built
TopOf(k) == SubSeq(stack, Len(stack) - k + 1, Len(stack))

Below(k) == SubSeq(stack, 1, Len(stack) - k)

Texts(es) == [i \in 1..Len(es) |-> es[i].text]

KindsOf(es) == {es[i].kind : i \in 1..Len(es)}

\* the numbers of arguments a variadic call can take from the stack
Arities == {k \in 0..MaxChildren : k <= Len(stack)}

NoCall ==
  [op |-> "none", name |-> <<>>, cond |-> FALSE, type |-> "", n |-> 0,
   children |-> <<>>, filters |-> <<>>, arg |-> <<>>, ret |-> <<>>]

\* the kinds of fragment a caller passes to each function
FilterOperands == {"clause", "none", "raw"}
BodyOperands == {"aggs", "none", "raw"}
QueryOperands == {"body", "aggs", "none", "raw"}
AggsOperands == {"agg", "none", "raw"}
AggOperands == {"metric", "histogram", "none", "raw"}
HistogramOperands == {"option", "none", "raw"}
\* what a caller makes optional: a filter, a block of aggregations, a histogram option
WhenOperands == {"clause", "aggs", "option", "none", "raw"}

\* the caller builds the operands of one call at a time: the fragments it holds
\* together are operands of one function, or a single finished document.  A caller
\* that builds a tree of aggregations also holds the aggregations it has finished
\* below the metrics of the one it builds.
Siblings(es) ==
  \/ \E ops \in {FilterOperands, BodyOperands, QueryOperands, AggsOperands, AggOperands,
                  HistogramOperands} : KindsOf(es) \subseteq ops
  \/ Len(es) = 1
  \/ /\ caller.tree
     /\ \E j \in 0..Len(es) : /\ \A i \in 1..j : es[i].kind = "agg"
                             /\ \A i \in (j + 1)..Len(es) : es[i].kind = "metric"

\* a call that returns ret leaves it on the stack in place of its k operands
Returns(k, kind, ret, call) ==
  /\ Len(stack) - k + 1 <= MaxChildren
  /\ left > 0
  /\ left' = left - 1
  /\ Siblings(Append(Below(k), Entry(kind, ret, call.op)))
  /\ stack' = Append(Below(k), Entry(kind, ret, call.op))
  /\ last' = [call EXCEPT !.ret = ret]
  /\ aborted' = FALSE

\* a call that panics ends the process, and with it all the caller held
Panics(call) ==
  /\ left > 0
  /\ left' = 0
  /\ stack' = <<>>
  /\ last' = call
  /\ aborted' = TRUE

Start(fields, names, tree, n) ==
  /\ stack = <<>>
  /\ closure = [set |-> FALSE, filters |-> <<>>]
  /\ last = NoCall
  /\ aborted = FALSE
  /\ left = n
  /\ caller = [fields |-> fields, names |-> names, tree |-> tree]

\* the caller writes a fragment by hand
Raw ==
  /\ ~aborted
  /\ left > 0
  /\ \E t \in RawTexts :
       Returns(0, IF t = <<>> THEN "none" ELSE "raw", t,
               [NoCall EXCEPT !.op = "Raw", !.arg = t])
  /\ UNCHANGED <<closure, caller>>

CallRange ==
  /\ ~aborted
  /\ left > 0
  /\ Returns(0, "clause", Range(<<"1">>, <<"2">>), [NoCall EXCEPT !.op = "Range"])
  /\ UNCHANGED <<closure, caller>>

CallTerm ==
  /\ ~aborted
  /\ left > 0
  /\ Returns(0, "clause", Term(<<"f">>, TermValue), [NoCall EXCEPT !.op = "Term"])
  /\ UNCHANGED <<closure, caller>>

CallSum ==
  /\ ~aborted
  /\ left > 0
  /\ \E f \in caller.fields :
       Returns(0, "metric", Sum(f), [NoCall EXCEPT !.op = "Sum", !.name = f])
  /\ UNCHANGED <<closure, caller>>

CallInterval ==
  /\ ~aborted
  /\ left > 0
  /\ \E v \in IntervalArgs :
       LET r == Interval(v)
           call == [NoCall EXCEPT !.op = "Interval", !.type = v.type,
                                  !.n = v.num, !.arg = v.str]
       IN  IF r.panic THEN Panics(call) ELSE Returns(0, "option", r.ret, call)
  /\ UNCHANGED <<closure, caller>>

CallTimeZone ==
  /\ ~aborted
  /\ left > 0
  /\ \E s \in ZoneArgs, local \in LocalOffsets :
       \E inLoc \in (IF Len(s) > 0 /\ s[1] \in ZoneNames THEN ZoneOffsets(s[1]) ELSE {local}) :
         Returns(0, "option", TimeZone(s, local, inLoc),
                 [NoCall EXCEPT !.op = "TimeZone", !.children = s,
                                !.n = IF Len(s) = 0 THEN local ELSE inLoc])
  /\ UNCHANGED <<closure, caller>>

\* When(cond, children...): the fragments are built whether or not cond holds.  The
\* caller does not pass the result of one When to another.
CallWhen ==
  /\ ~aborted
  /\ left > 0
  /\ \E cond \in BOOLEAN, k \in Arities :
       LET es == TopOf(k)
           ret == When(cond, Texts(es))
           kinds == KindsOf(es) \ {"none"}
       IN  /\ Cardinality(kinds) <= 1
           /\ kinds \subseteq WhenOperands
           /\ \A i \in 1..k : es[i].op # "When"
           /\ Returns(k, IF ret = <<>> THEN "none" ELSE CHOOSE x \in kinds : TRUE, ret,
                      [NoCall EXCEPT !.op = "When", !.cond = cond, !.children = Texts(es)])
  /\ UNCHANGED <<closure, caller>>

\* Filter(filters...) returns a function value that holds the filters
CallFilter ==
  /\ ~aborted
  /\ left > 0
  /\ ~closure.set
  /\ \E k \in Arities :
       LET es == TopOf(k)
       IN  /\ KindsOf(es) \subseteq FilterOperands
           /\ closure' = [set |-> TRUE, filters |-> Texts(es)]
           /\ left' = left - 1
           /\ stack' = Below(k)
           /\ last' = [NoCall EXCEPT !.op = "Filter", !.filters = Texts(es)]
           /\ aborted' = FALSE
  /\ UNCHANGED caller

\* a call of the function value Filter returned
CallFilterFunc ==
  /\ ~aborted
  /\ left > 0
  /\ closure.set
  /\ \E k \in Arities :
       LET es == TopOf(k)
       IN  /\ KindsOf(es) \subseteq BodyOperands
           /\ Returns(k, "body", FilterFunc(closure.filters, Texts(es)),
                      [NoCall EXCEPT !.op = "FilterFunc", !.filters = closure.filters,
                                     !.children = Texts(es)])
  /\ UNCHANGED <<closure, caller>>

CallAggs ==
  /\ ~aborted
  /\ left > 0
  /\ \E k \in Arities :
       LET es == TopOf(k)
       IN  /\ KindsOf(es) \subseteq AggsOperands
           /\ Returns(k, "aggs", Aggs(Texts(es)),
                      [NoCall EXCEPT !.op = "Aggs", !.children = Texts(es)])
  /\ UNCHANGED <<closure, caller>>

CallAgg ==
  /\ ~aborted
  /\ left > 0
  /\ \E name \in caller.names, k \in Arities :
       LET es == TopOf(k)
       IN  /\ KindsOf(es) \subseteq AggOperands
           /\ Returns(k, "agg", Agg(name, Texts(es)),
                      [NoCall EXCEPT !.op = "Agg", !.name = name, !.children = Texts(es)])
  /\ UNCHANGED <<closure, caller>>

CallDateHistogram ==
  /\ ~aborted
  /\ left > 0
  /\ \E f \in {<<"f">>}, k \in Arities :
       LET es == TopOf(k)
       IN  /\ KindsOf(es) \subseteq HistogramOperands
           /\ Returns(k, "histogram", DateHistogram(f, Texts(es)),
                      [NoCall EXCEPT !.op = "DateHistogram", !.name = f,
                                     !.children = Texts(es)])
  /\ UNCHANGED <<closure, caller>>

CallHistogram ==
  /\ ~aborted
  /\ left > 0
  /\ \E f \in {<<"f">>}, k \in Arities :
       LET es == TopOf(k)
       IN  /\ KindsOf(es) \subseteq HistogramOperands
           /\ Returns(k, "histogram", Histogram(f, Texts(es)),
                      [NoCall EXCEPT !.op = "Histogram", !.name = f, !.children = Texts(es)])
  /\ UNCHANGED <<closure, caller>>

\* Query(children...): the root, built of all the caller holds.  arg is the text it
\* hands to compress.
CallQuery ==
  /\ ~aborted
  /\ left > 0
  /\ Len(stack) \in Arities
  /\ LET r == Query(Texts(stack))
         call == [NoCall EXCEPT !.op = "Query", !.children = Texts(stack),
                                !.arg = QueryText(Texts(stack))]
     IN  /\ KindsOf(stack) \subseteq QueryOperands
         /\ IF r.panic THEN Panics(call) ELSE Returns(Len(stack), "document", r.ret, call)
  /\ UNCHANGED <<closure, caller>>

\* Pretty(s), of whatever text the caller holds
CallPretty ==
  /\ ~aborted
  /\ left > 0
  /\ Len(stack) > 0
  /\ LET s == stack[Len(stack)].text
         r == Pretty(s)
         call == [NoCall EXCEPT !.op = "Pretty", !.arg = s]
     IN  /\ stack[Len(stack)].kind # "pretty"
         /\ IF r.panic THEN Panics(call) ELSE Returns(1, "pretty", r.ret, call)
  /\ UNCHANGED <<closure, caller>>

\* a caller that builds one query from filters, some of them optional, and aggregations
Init == Start({<<"f">>}, {Total}, FALSE, MaxCalls)

Next ==
  \/ CallRange
  \/ CallTerm
  \/ CallWhen
  \/ CallFilter
  \/ CallFilterFunc
  \/ CallSum
  \/ CallAgg
  \/ CallAggs
  \/ CallQuery

Spec == Init /\ [][Next]_vars

\* a caller that builds a tree of named aggregations
AggInit == Start(Fields, Names, TRUE, MaxAggCalls)

AggNext ==
  \/ CallSum
  \/ CallAgg
  \/ CallAggs
  \/ CallQuery

AggSpec == AggInit /\ [][AggNext]_vars

\* a caller that passes optional and hand-written fragments and histogram options, and
\* prints what it holds
FragmentInit == Start({<<"f">>}, {Total}, FALSE, MaxFragmentCalls)

FragmentNext ==
  \/ Raw
  \/ CallWhen
  \/ CallInterval
  \/ CallTimeZone
  \/ CallDateHistogram
  \/ CallHistogram
  \/ CallRange
  \/ CallTerm
  \/ CallFilter
  \/ CallFilterFunc
  \/ CallSum
  \/ CallAgg
  \/ CallAggs
  \/ CallQuery
  \/ CallPretty

FragmentSpec == FragmentInit /\ [][FragmentNext]_vars
(***************************************************************************)
(* Properties of the package.  A text is compared with what it decodes    *)
(* to; the Key definitions name the members of the decoded documents.     *)
(***************************************************************************)
KeySize == <<"s", "i", "z", "e">>
KeyFilter == <<"f", "i", "l", "t", "e", "r">>
KeyBool == <<"b", "o", "o", "l">>
KeyAggs == <<"a", "g", "g", "s">>
KeySum == <<"s", "u", "m">>
KeyField == <<"f", "i", "e", "l", "d">>
KeyRange == <<"r", "a", "n", "g", "e">>
KeyTimestamp == <<"t", "i", "m", "e", "s", "t", "a", "m", "p">>
KeyGte == <<"g", "t", "e">>
KeyLte == <<"l", "t", "e">>
KeyTerm == <<"t", "e", "r", "m">>
KeyInterval == <<"i", "n", "t", "e", "r", "v", "a", "l">>
KeyTimeZone == <<"t", "i", "m", "e", "_", "z", "o", "n", "e">>

\* what a text decodes to, and the members of a decoded object
Decoded(t) == Unmarshal(t)
Braced(t) == <<"{">> \o t \o <<"}">>
Bracketed(t) == <<"[">> \o t \o <<"]">>
Single(key, val) == JObj(<<[key |-> key, val |-> val]>>)
IsNonEmpty(x) == x # <<>>
NonEmpty(s) == SelectSeq(s, IsNonEmpty)

\* the length of the first n strings of es, each followed by a separator
RECURSIVE Extent(_, _)
Extent(es, n) == IF n = 0 THEN 0 ELSE Extent(es, n - 1) + Len(es[n]) + Len(Sep)

\* r is the strings of es in order, with the separator between neighbours and
\* nowhere else
IsJoinOf(r, es) ==
  IF es = <<>> THEN r = <<>>
  ELSE /\ Len(r) = Extent(es, Len(es)) - Len(Sep)
       /\ \A i \in 1..Len(es) :
            SubSeq(r, Extent(es, i - 1) + 1, Extent(es, i - 1) + Len(es[i])) = es[i]
       /\ \A i \in 1..(Len(es) - 1) :
            SubSeq(r, Extent(es, i) - 1, Extent(es, i)) = <<",", "\n">>

\* the functions that hand their fragments to join
Joiners == {"When", "FilterFunc", "Aggs", "Agg", "DateHistogram", "Histogram", "Query"}

\* C1: join drops every empty string, keeps the others in their order and puts
\* a comma and a line break between neighbours only: nothing before the first,
\* nothing after the last, and the empty string when nothing is left.  When,
\* called with a true condition, returns exactly that.
C1_JoinKeepsTheNonEmptyFragmentsInOrder ==
  last.op \in Joiners =>
    /\ IsJoinOf(join(last.children), NonEmpty(last.children))
    /\ IsJoinOf(join(last.filters), NonEmpty(last.filters))
    /\ NonEmpty(last.children) = <<>> => join(last.children) = <<>>
    /\ last.op = "When" /\ last.cond => IsJoinOf(last.ret, NonEmpty(last.children))

\* an empty fragment before a non-empty one leaves no separator behind
C1_Witness ==
  /\ last.op = "When"
  /\ last.cond
  /\ Len(last.children) = MaxChildren
  /\ last.children[1] = <<>>
  /\ last.children[MaxChildren] # <<>>
  /\ last.ret = last.children[MaxChildren]

\* a comma with nothing but white space between it and a closing bracket or
\* the end of the text
StrayComma(t) ==
  \E i \in 1..Len(t) : t[i] = "," /\ At(t, SkipSpace(t, i + 1)) \in {"}", "]", "EOF"}

\* the functions that take a list of fragments and write it inside a template
Combinators == {"Query", "FilterFunc", "Aggs", "Agg", "DateHistogram", "Histogram"}

\* C2: whatever empty strings the list of fragments holds, none at all and all
\* empty included, each combinator returns, and the text it built has no stray
\* comma
C2_EmptyFragmentsLeaveNoStrayComma ==
  last.op \in Combinators =>
    /\ ~aborted
    /\ ~StrayComma(IF last.op = "Query" THEN last.arg ELSE last.ret)

Largest(S) == CHOOSE i \in S : \A j \in S : j <= i

\* C3 as the specification states it: the document Query returns has a top-level
\* "size" of 0
C3_SizeIsAlwaysZero ==
  last.op = "Query" /\ ~aborted =>
    LET doc == Decoded(last.ret)
    IN  /\ ~doc.err
        /\ doc.v.k = "obj"
        /\ HasKey(doc.v.v, KeySize)
        /\ MapGet(doc.v.v, KeySize) = JNum(FALSE, 0)

\* C3: the document Query returns is an object with a top-level "size" and with
\* every member the children supply.  The "size" is 0 unless the text of the
\* children has a top-level "size" of its own: then it is the value of the last
\* such member.  The document has no other member.
C3_SizeIsZeroUnlessAChildSetsIt ==
  last.op = "Query" /\ ~aborted =>
    LET doc == Decoded(last.ret)
        rest == Decoded(Braced(StringsJoin(NonEmpty(last.children), Sep)))
    IN  /\ ~doc.err
        /\ doc.v.k = "obj"
        /\ HasKey(doc.v.v, KeySize)
        /\ ~rest.err
        /\ \A m \in 1..Len(rest.v.v) :
             MapGet(doc.v.v, rest.v.v[m].key) = rest.v.v[m].val
        /\ IF HasKey(rest.v.v, KeySize)
           THEN Len(doc.v.v) = Len(rest.v.v)
           ELSE /\ Len(doc.v.v) = Len(rest.v.v) + 1
                /\ MapGet(doc.v.v, KeySize) = JNum(FALSE, 0)

\* a child that supplies a "size" of 1 decides the "size" of the document
C3_Witness ==
  /\ last.op = "Query"
  /\ ~aborted
  /\ RawSize \in {last.children[i] : i \in 1..Len(last.children)}
  /\ MapGet(Decoded(last.ret).v.v, KeySize) = JNum(FALSE, 1)

\* texts that are no JSON document
Malformed == {<<>>, RawSize, RawBroken}

\* C4: a text that does not parse is fatal in the normalization of Query and in
\* Pretty, and nowhere else: both abort exactly when the text they are given has
\* no well-formed parse, the combinators pass a malformed fragment on without
\* complaint, and the only other abort is that of Interval
C4_MalformedTextIsFatalAtNormalizationOnly ==
  /\ last.op \in {"Query", "Pretty"} =>
       /\ aborted <=> Decoded(last.arg).err
       /\ last.arg \in Malformed => aborted
       /\ last.arg = RawDocument => ~aborted
  /\ last.op = "Query" /\ NonEmpty(last.children) = <<>> => aborted
  /\ aborted => last.op \in {"Query", "Pretty", "Interval"}
  /\ last.op \in (Combinators \cup {"When", "Filter", "Raw"}) \ {"Query"} => ~aborted

\* a broken fragment went through Aggs, and the abort came in Query
C4_Witness ==
  /\ last.op = "Query"
  /\ aborted
  /\ last.children = <<Aggs(<<RawBroken>>)>>

\* C5: When returns the joined fragments when its condition is true and the
\* empty string when it is false; with nothing but empty fragments it returns
\* the empty string either way; it never aborts
C5_WhenJoinsOrReturnsEmpty ==
  last.op = "When" =>
    /\ ~aborted
    /\ last.cond => last.ret = join(last.children)
    /\ ~last.cond => last.ret = <<>>
    /\ NonEmpty(last.children) = <<>> => last.ret = <<>>
    /\ last.cond /\ Len(NonEmpty(last.children)) = 1 => last.ret = NonEmpty(last.children)[1]

\* a false condition drops a fragment that was not empty
C5_Witness ==
  /\ last.op = "When"
  /\ ~last.cond
  /\ NonEmpty(last.children) # <<>>
  /\ last.ret = <<>>

\* the white space a text ends with
Trailing(t) == Len(t) - (CHOOSE n \in 0..Len(t) :
                           /\ n = 0 \/ ~IsSpace(t[n])
                           /\ \A j \in (n + 1)..Len(t) : IsSpace(t[j]))

\* t ends with s, white space aside
EndsWith(t, s) ==
  LET e == Len(t) - Trailing(t)
  IN  Len(s) <= e /\ SubSeq(t, e - Len(s) + 1, e) = s

\* a member no fragment supplies, to close a body that has no children
Probe == <<"\"", "p", "r", "o", "b", "e", "\"", ":", " ", "0">>

\* the query of the end-to-end scenario, and the document it is to produce
ScenarioBody ==
  FilterFunc(<<Range(<<"1">>, <<"2">>), Term(<<"f">>, TermValue)>>,
             <<Aggs(<<Agg(Total, <<Sum(<<"f">>)>>)>>)>>)

ScenarioDocument ==
  JObj(<<[key |-> KeyAggs,
          val |-> Single(Total, Single(KeySum, Single(KeyField, JStr(<<"f">>))))],
         [key |-> KeyFilter,
          val |-> Single(KeyBool, Single(KeyFilter, JArr(<<
                    Single(KeyRange, Single(KeyTimestamp,
                      JObj(<<[key |-> KeyGte, val |-> JStr(<<"1">>)],
                             [key |-> KeyLte, val |-> JStr(<<"2">>)]>>))),
                    Single(KeyTerm, Single(<<"f">>, JStr(TermValue)))>>)))],
         [key |-> KeySize, val |-> JNum(FALSE, 0)]>>)

\* C6: the function Filter returns holds the filters it was given, and never
\* aborts.  Called with children it returns the members of an object: a "filter"
\* whose "bool" has a "filter" array of the non-empty filters in their order,
\* then the children, which come last in the text.  The query of a range and a
\* term filter around one sum aggregation normalizes to the document expected.
C6_FilterIsATwoStageCombinator ==
  /\ last.op \in {"Filter", "FilterFunc"} => ~aborted /\ last.filters = closure.filters
  /\ last.op = "FilterFunc" =>
       LET F == StringsJoin(NonEmpty(last.filters), Sep)
           C == StringsJoin(NonEmpty(last.children), Sep)
           probe == IF C = <<>> THEN Probe ELSE <<>>
           got == Decoded(Braced(last.ret \o probe))
           array == Decoded(Bracketed(F))
           rest == Decoded(Braced(C \o probe))
       IN  /\ EndsWith(last.ret, C)
           /\ ~array.err /\ ~rest.err /\ ~HasKey(rest.v.v, KeyFilter) =>
                /\ ~got.err
                /\ got.v.k = "obj"
                /\ Len(got.v.v) = Len(rest.v.v) + 1
                /\ MapGet(got.v.v, KeyFilter) = Single(KeyBool, Single(KeyFilter, array.v))
                /\ \A m \in 1..Len(rest.v.v) :
                     MapGet(got.v.v, rest.v.v[m].key) = rest.v.v[m].val
  /\ last.op = "Query" /\ last.children = <<ScenarioBody>> =>
       ~aborted /\ Decoded(last.ret).v = ScenarioDocument

\* the query of the scenario has been built and normalized
C6_Witness ==
  /\ last.op = "Query"
  /\ ~aborted
  /\ last.children = <<ScenarioBody>>
  /\ closure.filters = <<Range(<<"1">>, <<"2">>), Term(<<"f">>, TermValue)>>

\* C7: the text Query and Pretty return decodes to the structure their input
\* decodes to; normalizing a normalized text changes nothing; Pretty of a text
\* and the normalization of that text decode to the same structure
C7_NormalizationKeepsTheStructure ==
  last.op \in {"Query", "Pretty"} /\ ~aborted =>
    LET a == Decoded(last.arg)
        r == Decoded(last.ret)
    IN  /\ ~a.err
        /\ ~r.err
        /\ r.v = a.v
        /\ compress(last.arg).ret = Marshal(a.v)
        /\ last.op = "Query" => compress(last.ret) = Return(last.ret)
        /\ last.op = "Pretty" => Decoded(compress(last.arg).ret).v = r.v

\* Pretty laid out a document with a repeated key, a negative zero and a "<"
C7_Witness ==
  /\ last.op = "Pretty"
  /\ ~aborted
  /\ last.arg = RawDocument
  /\ last.ret # last.arg
  /\ Decoded(last.ret).v = Decoded(RawDocument).v

\* C8: Interval writes an int as a number without quotes and a string as a
\* quoted string, and aborts on a value of any other type
C8_IntervalTakesAnIntOrAString ==
  last.op = "Interval" =>
    LET got == Decoded(Braced(last.ret))
        mag == IF last.n < 0 THEN 0 - last.n ELSE last.n
    IN  /\ last.type = "int" =>
              ~aborted /\ ~got.err /\ got.v = Single(KeyInterval, JNum(last.n < 0, mag))
        /\ last.type = "string" =>
              ~aborted /\ ~got.err /\ got.v = Single(KeyInterval, JStr(last.arg))
        /\ last.type \notin {"int", "string"} => aborted

\* a floating-point interval aborted
C8_Witness ==
  /\ last.op = "Interval"
  /\ last.type = "float64"
  /\ aborted

NamedSums == UNION {[1..k -> Names \X Fields] : k \in 1..MaxChildren}

\* the names in increasing order
RECURSIVE InOrder(_)
InOrder(S) ==
  IF S = {} THEN <<>>
  ELSE LET least == CHOOSE x \in S : \A y \in S \ {x} : StrLess(x, y)
       IN  <<least>> \o InOrder(S \ {least})

\* one member for each name of the list, defined by the last sum of that name
LastDefinitions(l) ==
  LET names == InOrder({l[i][1] : i \in 1..Len(l)})
  IN  [m \in 1..Len(names) |->
         [key |-> names[m],
          val |-> Single(KeySum, Single(KeyField,
                    JStr(l[Largest({i \in 1..Len(l) : l[i][1] = names[m]})][2])))]]

\* C10: two aggregations of one name under one parent assemble without
\* complaint, and the normalized document keeps the last definition of the
\* name only; aggregations of other names are kept as they are
C10_TheLastOfTwoNamesakesWins ==
  /\ last.op \in {"Sum", "Agg", "Aggs"} => ~aborted
  /\ last.op = "Query" =>
       \A l \in NamedSums :
         last.children = <<Aggs([i \in 1..Len(l) |-> Agg(l[i][1], <<Sum(l[i][2])>>)])>> =>
           /\ ~aborted
           /\ Decoded(last.ret).v =
                JObj(<<[key |-> KeyAggs, val |-> JObj(LastDefinitions(l))],
                       [key |-> KeySize, val |-> JNum(FALSE, 0)]>>)

\* two sums named "total", the first of field "f" and the last of field "g"
C10_Witness ==
  /\ last.op = "Query"
  /\ ~aborted
  /\ last.children = <<Aggs(<<Agg(Total, <<Sum(<<"f">>)>>), Agg(Total, <<Sum(<<"g">>)>>)>>)>>
  /\ Decoded(last.ret).v =
       JObj(<<[key |-> KeyAggs,
               val |-> Single(Total, Single(KeySum, Single(KeyField, JStr(<<"g">>))))],
              [key |-> KeySize, val |-> JNum(FALSE, 0)]>>)
====
